---------------------------- MODULE Spec2Model ----------------------------
(***************************************************************************)
(* The real-time room gateway of Slackr2 (MessageGateway) as a state       *)
(* machine.  Every handler of the gateway is one action per synchronous    *)
(* segment: a handler runs from its entry (or from the resumption of an    *)
(* await) to its next await without interleaving, as the JavaScript event  *)
(* loop runs it.  A handler suspended at an await is a record of `tasks'.  *)
(*                                                                         *)
(* The socket.io server (group bookkeeping and delivery) and the message   *)
(* persistence service are collaborators; the persistence service is       *)
(* modelled from its interface contract.                                   *)
(***************************************************************************)
EXTENDS Integers, Sequences, FiniteSets, TLC

(***************************************************************************)
(* The universe of the model.                                              *)
(***************************************************************************)
Conns == {"c1", "c2", "c3"}
Users == {"U1", "U2"}
Rooms == {"R1", "R2"}
Contents == {"hi", "yo"}
Tokens == {"none", "bad", "good"}

\* The identity a valid token of each connection verifies to: c1 and c2 are
\* two connections of the same user.
TokenSub(c) == IF c = "c3" THEN "U2" ELSE "U1"

\* Bounds of the model: the handlers that may be suspended at an await at the
\* same time, and the messages the persistence service may ever hold.
MaxTasks == 1
MaxRaceTasks == 2
MaxMsgTasks == 1
MaxMsgs == 1
MaxAuthTasks == 1
MaxParTasks == 2

NoUser == "-"
NoRoom == "-"
NoMsg == [id |-> 0, roomId |-> NoRoom, userId |-> NoUser, content |-> "-"]
MsgIds == 1..MaxMsgs

VARIABLES
    sock,         \* per connection: "pending", "live" or "closed"
    data,         \* client.data.user.sub of each connection (NoUser: none)
    rooms,        \* socket.io: the groups each connection is subscribed to
    roomKeys,     \* this.roomMembers: the Map's keys, in insertion order
    roomMembers,  \* this.roomMembers: the Set of each key, in insertion order
    tasks,        \* the handlers suspended at an await
    db,           \* the persisted messages
    nextId,       \* the id the next created message gets
    emits,        \* the events emitted by the last step, in order
    lastOp,       \* the handler segment the last step ran
    announced,    \* history: the last presence event emitted per (user, room)
    hook          \* the useRoomSocket client mounted on connection HookConn

vars == <<sock, data, rooms, roomKeys, roomMembers, tasks, db, nextId, emits, lastOp,
         announced, hook>>

(***************************************************************************)
(* JavaScript Set and Map, which keep insertion order.                     *)
(***************************************************************************)
SetHas(s, x) == \E i \in 1..Len(s) : s[i] = x
SetAdd(s, x) == IF SetHas(s, x) THEN s ELSE Append(s, x)
SetDelete(s, x) == SelectSeq(s, LAMBDA y : y # x)
ArrayFrom(s) == s
Elems(s) == {s[i] : i \in 1..Len(s)}

MapHas(r) == SetHas(roomKeys, r)

(***************************************************************************)
(* Group names and delivery.                                               *)
(***************************************************************************)
RoomGroup(roomId) == "room:" \o roomId
UserGroup(sub) == "user:" \o sub

\* server.to(group): the connections subscribed to the group when the event
\* is emitted.
ServerTo(rms, group) == {c \in Conns : group \in rms[c]}

\* server.to(group).emit(ev, payload)
Broadcast(rms, group, ev, payload) ==
    [ev |-> ev, target |-> group, to |-> ServerTo(rms, group), payload |-> payload]

\* client.emit(ev, payload): a closed socket drops the packet.
ClientEmit(sk, c, ev, payload) ==
    [ev |-> ev, target |-> c, to |-> IF sk[c] = "live" THEN {c} ELSE {},
     payload |-> payload]

Presence(userId, roomId) == [userId |-> userId, roomId |-> roomId]

\* What the last step ran (`lastOp') and a suspended handler (an element of
\* `tasks').  wasJoined and rejoined are history fields, read by no handler:
\* whether the connection was subscribed to the room's group when the command
\* arrived, and whether a joinRoom for the same room arrived on the same
\* connection while a leaveRoom was suspended.

Op(op, step, c, room, msg, outcome, success, wasJoined, author, msgRoom) ==
    [op |-> op, step |-> step, conn |-> c, room |-> room, msg |-> msg,
     outcome |-> outcome, success |-> success, wasJoined |-> wasJoined,
     author |-> author, msgRoom |-> msgRoom, rejoined |-> FALSE]

Task(c, op, pc, room, msg, content, wasJoined) ==
    [conn |-> c, op |-> op, pc |-> pc, room |-> room, msg |-> msg,
     content |-> content, wasJoined |-> wasJoined, rejoined |-> FALSE]

\* useRoomSocket before its first render.  JavaScript's undefined room is
\* NoRoom.  byCallback and requested are history fields, read by no handler:
\* whether the last room request came from the joinRoom or leaveRoom callback
\* (rather than from the roomId prop), and the room it asked for.
HookInit ==
    [mounted |-> FALSE, unmounted |-> FALSE, socket |-> FALSE,
     roomId |-> NoRoom, currentRoom |-> NoRoom, mountRoom |-> NoRoom,
     dirty |-> FALSE, outbox |-> <<>>, messages |-> <<>>, roomMembers |-> <<>>,
     byCallback |-> FALSE, requested |-> NoRoom]

Init ==
    /\ announced = [p \in Users \X Rooms |-> "none"]
    /\ hook = HookInit
    /\ sock = [c \in Conns |-> "pending"]
    /\ data = [c \in Conns |-> NoUser]
    /\ rooms = [c \in Conns |-> {}]
    /\ roomKeys = <<>>
    /\ roomMembers = [r \in Rooms |-> <<>>]
    /\ tasks = {}
    /\ db = [i \in MsgIds |-> NoMsg]
    /\ nextId = 1
    /\ emits = <<>>
    /\ lastOp = Op("init", "-", "-", NoRoom, 0, "-", "-", FALSE, NoUser, NoRoom)

(***************************************************************************)
(* handleConnection                                                        *)
(***************************************************************************)
\* Mutant: a handshake without a valid token is logged but not disconnected.
HandleConnectionAdmitsAll(c, token) ==
    /\ sock[c] = "pending"
    /\ sock' = [sock EXCEPT ![c] = "live"]
    /\ IF token = "good"
         THEN /\ data' = [data EXCEPT ![c] = TokenSub(c)]
              /\ rooms' = [rooms EXCEPT ![c] = {UserGroup(TokenSub(c))}]
         ELSE UNCHANGED <<data, rooms>>
    /\ emits' = <<>>
    /\ lastOp' = Op("connect", token, c, NoRoom, 0, "-", "-", FALSE, NoUser, NoRoom)
    /\ UNCHANGED <<roomKeys, roomMembers, tasks, db, nextId>>

HandleConnection(c, token) ==
    /\ sock[c] = "pending"
    /\ IF token = "good"
         THEN /\ sock' = [sock EXCEPT ![c] = "live"]
              /\ data' = [data EXCEPT ![c] = TokenSub(c)]
              /\ rooms' = [rooms EXCEPT ![c] = {UserGroup(TokenSub(c))}]
         ELSE /\ sock' = [sock EXCEPT ![c] = "closed"]
              /\ UNCHANGED <<data, rooms>>
    /\ emits' = <<>>
    /\ lastOp' = Op("connect", token, c, NoRoom, 0, "-", "-", FALSE, NoUser, NoRoom)
    /\ UNCHANGED <<roomKeys, roomMembers, tasks, db, nextId>>

(***************************************************************************)
(* handleDisconnect.  socket.io has removed the socket from all its groups *)
(* before it emits "disconnect", so `rms' below no longer holds the        *)
(* departing connection.                                                   *)
(***************************************************************************)
\* The body of the forEach callback for one (members, roomId) entry.
DisconnectRoom(members, roomId, userId, rms) ==
    IF SetHas(members, userId)
      THEN [members |-> SetDelete(members, userId),
            out |-> << Broadcast(rms, RoomGroup(roomId), "roomMembers",
                                 ArrayFrom(SetDelete(members, userId))),
                       Broadcast(rms, RoomGroup(roomId), "userLeft",
                                 Presence(userId, roomId)) >>]
      ELSE [members |-> members, out |-> <<>>]

\* this.roomMembers.forEach(...), from the i-th key on.
RECURSIVE DisconnectRooms(_, _, _, _, _)
DisconnectRooms(i, keys, rm, userId, rms) ==
    IF i > Len(keys)
      THEN [rm |-> rm, out |-> <<>>]
      ELSE LET one == DisconnectRoom(rm[keys[i]], keys[i], userId, rms)
               rest == DisconnectRooms(i + 1, keys,
                                       [rm EXCEPT ![keys[i]] = one.members],
                                       userId, rms)
           IN  [rm |-> rest.rm, out |-> one.out \o rest.out]

DisconnectCleanup(keys, rm, userId, rms) ==
    IF userId # NoUser
      THEN DisconnectRooms(1, keys, rm, userId, rms)
      ELSE [rm |-> rm, out |-> <<>>]

HandleDisconnect(c) ==
    /\ sock[c] = "live"
    /\ LET left == [rooms EXCEPT ![c] = {}]
           done == DisconnectCleanup(roomKeys, roomMembers, data[c], left)
       IN  /\ sock' = [sock EXCEPT ![c] = "closed"]
           /\ rooms' = left
           /\ roomMembers' = done.rm
           /\ emits' = done.out
    /\ lastOp' = Op("disconnect", "return", c, NoRoom, 0, "-", "-", FALSE, NoUser, NoRoom)
    /\ UNCHANGED <<data, roomKeys, tasks, db, nextId>>

\* this.roomMembers.forEach(...), from the i-th key on, when the emission of
\* event failEv for room failRoom throws: the deletion and the emissions made
\* before the throw stand, the exception leaves the forEach, and the entries
\* after failRoom are not visited.
RECURSIVE DisconnectRoomsThrow(_, _, _, _, _, _, _)
DisconnectRoomsThrow(i, keys, rm, userId, rms, failRoom, failEv) ==
    IF i > Len(keys)
      THEN [rm |-> rm, out |-> <<>>]
      ELSE LET one == DisconnectRoom(rm[keys[i]], keys[i], userId, rms)
               cut == [rm EXCEPT ![keys[i]] = one.members]
           IN  IF keys[i] = failRoom /\ one.out # <<>>
                 THEN [rm |-> cut,
                       out |-> IF failEv = "userLeft" THEN <<one.out[1]>> ELSE <<>>]
                 ELSE LET rest == DisconnectRoomsThrow(i + 1, keys, cut, userId, rms,
                                                       failRoom, failEv)
                      IN  [rm |-> rest.rm, out |-> one.out \o rest.out]

PresenceEvents == {"roomMembers", "userLeft"}

\* handleDisconnect when an emission throws: the catch block logs the error.
\* lastOp.room is the room whose emission threw.
HandleDisconnectThrow(c, failRoom, failEv) ==
    /\ sock[c] = "live"
    /\ data[c] # NoUser
    /\ MapHas(failRoom) /\ SetHas(roomMembers[failRoom], data[c])
    /\ LET left == [rooms EXCEPT ![c] = {}]
           done == DisconnectRoomsThrow(1, roomKeys, roomMembers, data[c], left,
                                        failRoom, failEv)
       IN  /\ sock' = [sock EXCEPT ![c] = "closed"]
           /\ rooms' = left
           /\ roomMembers' = done.rm
           /\ emits' = done.out
    /\ lastOp' = Op("disconnect", "catch", c, failRoom, 0, "-", "-", FALSE, NoUser, NoRoom)
    /\ UNCHANGED <<data, roomKeys, tasks, db, nextId>>

(***************************************************************************)
(* The persistence service (MessageService), from its interface contract.  *)
(***************************************************************************)
Outcomes == {"ok", "fail"}

\* Room owners, as the persistence service knows them.
RoomOwner(roomId) == IF roomId = "R1" THEN "U1" ELSE "U2"

Exists(d, id) == id \in MsgIds /\ d[id] # NoMsg

\* listMessages: the messages of the room, oldest first.
RECURSIVE ListFrom(_, _, _)
ListFrom(d, roomId, i) ==
    IF i > MaxMsgs THEN <<>>
    ELSE (IF d[i] # NoMsg /\ d[i].roomId = roomId THEN <<d[i]>> ELSE <<>>)
         \o ListFrom(d, roomId, i + 1)

FindAllByRoom(d, roomId) == ListFrom(d, roomId, 1)

\* createMessage fails on a validation error or when the service is unreachable.
CreateOutcomes(d, n) == IF n \in MsgIds THEN Outcomes ELSE {"fail"}

\* getMessage fails with NotFound (and Forbidden, TransientFailure).
FindOneOutcomes(d, id) == IF Exists(d, id) THEN Outcomes ELSE {"fail"}

\* updateMessage fails with Forbidden if the requester is not the author.
UpdateOutcomes(d, id, userId) ==
    IF Exists(d, id) /\ d[id].userId = userId THEN Outcomes ELSE {"fail"}

\* deleteMessage fails with Forbidden if the requester is neither the author
\* nor the owner of the room.
RemoveOutcomes(d, id, userId) ==
    IF Exists(d, id) /\ (d[id].userId = userId \/ RoomOwner(d[id].roomId) = userId)
      THEN Outcomes ELSE {"fail"}

(***************************************************************************)
(* handleJoinRoom                                                          *)
(***************************************************************************)
Quiet == Op("quiet", "-", "-", NoRoom, 0, "-", "-", FALSE, NoUser, NoRoom)

\* client.join(`room:${roomId}`)
JoinRoomRooms(rms, c, roomId) == [rms EXCEPT ![c] = @ \cup {RoomGroup(roomId)}]

\* History only: a leaveRoom of the same connection and room is suspended
\* while this joinRoom arrives.
Overtake(u, c, roomId) ==
    IF u.op = "leaveRoom" /\ u.conn = c /\ u.room = roomId
      THEN [u EXCEPT !.rejoined = TRUE] ELSE u

\* The segment up to `await client.join(...)'.
JoinRoomStart(c, roomId) ==
    /\ sock[c] = "live"
    /\ LET t == Task(c, "joinRoom", "join", roomId, 0, "-",
                     RoomGroup(roomId) \in rooms[c])
       IN  /\ t \notin tasks
           /\ tasks' = {Overtake(u, c, roomId) : u \in tasks} \cup {t}
    /\ rooms' = JoinRoomRooms(rooms, c, roomId)
    /\ emits' = <<>>
    /\ lastOp' = Quiet
    /\ UNCHANGED <<sock, data, roomKeys, roomMembers, db, nextId>>

\* Add user to room members tracking.
JoinRoomKeys(keys, roomId) == SetAdd(keys, roomId)
JoinRoomMembers(keys, rm, roomId, userId) ==
    [rm EXCEPT ![roomId] = SetAdd(IF SetHas(keys, roomId) THEN @ ELSE <<>>, userId)]

\* The segment from the resumption after client.join to the await of
\* messageService.findAllByRoom.
JoinRoomAdd(t) ==
    /\ t \in tasks /\ t.op = "joinRoom" /\ t.pc = "join"
    /\ roomKeys' = JoinRoomKeys(roomKeys, t.room)
    /\ roomMembers' = JoinRoomMembers(roomKeys, roomMembers, t.room, data[t.conn])
    /\ tasks' = (tasks \ {t}) \cup {[t EXCEPT !.pc = "findAllByRoom"]}
    /\ emits' = <<>>
    /\ lastOp' = Quiet
    /\ UNCHANGED <<sock, data, rooms, db, nextId>>

\* Mutant: userJoined is emitted before the roomMembers snapshot.
JoinRoomEmitsSwapped(sk, rms, c, messages, members, roomId, userId) ==
    << ClientEmit(sk, c, "messageHistory", messages),
       Broadcast(rms, RoomGroup(roomId), "userJoined", Presence(userId, roomId)),
       Broadcast(rms, RoomGroup(roomId), "roomMembers", ArrayFrom(members)) >>

\* The three emissions that end a successful join.
JoinRoomEmits(sk, rms, c, messages, members, roomId, userId) ==
    << ClientEmit(sk, c, "messageHistory", messages),
       Broadcast(rms, RoomGroup(roomId), "roomMembers", ArrayFrom(members)),
       Broadcast(rms, RoomGroup(roomId), "userJoined", Presence(userId, roomId)) >>

\* findAllByRoom returns or throws; a throw ends the handler there.
JoinRoomReturn(t, outcome) ==
    /\ t \in tasks /\ t.op = "joinRoom" /\ t.pc = "findAllByRoom"
    /\ tasks' = tasks \ {t}
    /\ emits' = IF outcome = "ok"
                  THEN JoinRoomEmits(sock, rooms, t.conn, FindAllByRoom(db, t.room),
                                     IF MapHas(t.room) THEN roomMembers[t.room] ELSE <<>>,
                                     t.room, data[t.conn])
                  ELSE <<>>
    /\ lastOp' = Op("joinRoom", "return", t.conn, t.room, 0, outcome, "-",
                    t.wasJoined, NoUser, NoRoom)
    /\ UNCHANGED <<sock, data, rooms, roomKeys, roomMembers, db, nextId>>

(***************************************************************************)
(* handleLeaveRoom                                                         *)
(***************************************************************************)
\* Mutant: the handler does not take the socket out of the group.
LeaveRoomRoomsKept(rms, c, roomId) == rms

\* client.leave(`room:${roomId}`)
LeaveRoomRooms(rms, c, roomId) == [rms EXCEPT ![c] = @ \ {RoomGroup(roomId)}]

\* The segment up to `await client.leave(...)'.
LeaveRoomStart(c, roomId) ==
    /\ sock[c] = "live"
    /\ LET t == Task(c, "leaveRoom", "leave", roomId, 0, "-",
                     RoomGroup(roomId) \in rooms[c])
       IN  /\ t \notin tasks
           /\ tasks' = tasks \cup {t}
    /\ rooms' = LeaveRoomRooms(rooms, c, roomId)
    /\ emits' = <<>>
    /\ lastOp' = Quiet
    /\ UNCHANGED <<sock, data, roomKeys, roomMembers, db, nextId>>

\* Remove user from room members tracking.
LeaveRoomMembers(keys, rm, roomId, userId) ==
    IF SetHas(keys, roomId)
      THEN [rm EXCEPT ![roomId] = SetDelete(@, userId)]
      ELSE rm

\* Mutant: the snapshot is taken from the table before the removal.
LeaveRoomEmitsStale(keys, rm, rms, roomId, userId) ==
    (IF SetHas(keys, roomId)
       THEN << Broadcast(rms, RoomGroup(roomId), "roomMembers",
                         ArrayFrom(roomMembers[roomId])) >>
       ELSE <<>>)
    \o << Broadcast(rms, RoomGroup(roomId), "userLeft", Presence(userId, roomId)) >>

\* roomMembers (if the room has an entry), then userLeft; `rm' is the table
\* after the removal.
LeaveRoomEmits(keys, rm, rms, roomId, userId) ==
    (IF SetHas(keys, roomId)
       THEN << Broadcast(rms, RoomGroup(roomId), "roomMembers", ArrayFrom(rm[roomId])) >>
       ELSE <<>>)
    \o << Broadcast(rms, RoomGroup(roomId), "userLeft", Presence(userId, roomId)) >>

\* The segment after the resumption from client.leave.
LeaveRoomFinish(t) ==
    /\ t \in tasks /\ t.op = "leaveRoom" /\ t.pc = "leave"
    /\ tasks' = tasks \ {t}
    /\ roomMembers' = LeaveRoomMembers(roomKeys, roomMembers, t.room, data[t.conn])
    /\ emits' = LeaveRoomEmits(roomKeys, roomMembers', rooms, t.room, data[t.conn])
    /\ lastOp' = [Op("leaveRoom", "return", t.conn, t.room, 0, "-", "-",
                       t.wasJoined, NoUser, NoRoom) EXCEPT !.rejoined = t.rejoined]
    /\ UNCHANGED <<sock, data, rooms, roomKeys, db, nextId>>

(***************************************************************************)
(* handleGetRoomMembers                                                    *)
(***************************************************************************)
GetRoomMembersList(keys, rm, roomId) ==
    IF SetHas(keys, roomId) THEN ArrayFrom(rm[roomId]) ELSE <<>>

\* Mutant: the snapshot is broadcast to the room's group.
GetRoomMembersEmitsToGroup(sk, rms, c, members, roomId) ==
    << Broadcast(rms, RoomGroup(roomId), "roomMembers", members) >>

GetRoomMembersEmits(sk, rms, c, members, roomId) ==
    << ClientEmit(sk, c, "roomMembers", members) >>

HandleGetRoomMembers(c, roomId) ==
    /\ sock[c] = "live"
    /\ emits' = GetRoomMembersEmits(sock, rooms, c,
                     GetRoomMembersList(roomKeys, roomMembers, roomId), roomId)
    /\ lastOp' = Op("getRoomMembers", "return", c, roomId, 0, "-", "true",
                    RoomGroup(roomId) \in rooms[c], NoUser, NoRoom)
    /\ UNCHANGED <<sock, data, rooms, roomKeys, roomMembers, tasks, db, nextId>>

(***************************************************************************)
(* handleSendMessage                                                       *)
(***************************************************************************)
AuthorOf(d, id) == IF Exists(d, id) THEN d[id].userId ELSE NoUser
RoomOf(d, id) == IF Exists(d, id) THEN d[id].roomId ELSE NoRoom

\* Mutant: sending to a room subscribes the sender to the room's group.
SendMessageStartJoining(c, roomId, content) ==
    /\ sock[c] = "live"
    /\ LET t == Task(c, "sendMessage", "create", roomId, 0, content,
                     RoomGroup(roomId) \in rooms[c])
       IN  /\ t \notin tasks
           /\ tasks' = tasks \cup {t}
    /\ rooms' = JoinRoomRooms(rooms, c, roomId)
    /\ emits' = <<>>
    /\ lastOp' = Quiet
    /\ UNCHANGED <<sock, data, roomKeys, roomMembers, db, nextId>>

\* Mutant: the gateway holds one lock across its persistence calls, so a
\* command starts only while no other is suspended.
SendMessageStartExclusive(c, roomId, content) ==
    /\ sock[c] = "live"
    /\ tasks = {}
    /\ tasks' = {Task(c, "sendMessage", "create", roomId, 0, content,
                      RoomGroup(roomId) \in rooms[c])}
    /\ emits' = <<>>
    /\ lastOp' = Quiet
    /\ UNCHANGED <<sock, data, rooms, roomKeys, roomMembers, db, nextId>>

\* The segment up to `await this.messageService.create(...)'.
SendMessageStart(c, roomId, content) ==
    /\ sock[c] = "live"
    /\ LET t == Task(c, "sendMessage", "create", roomId, 0, content,
                     RoomGroup(roomId) \in rooms[c])
       IN  /\ t \notin tasks
           /\ tasks' = tasks \cup {t}
    /\ emits' = <<>>
    /\ lastOp' = Quiet
    /\ UNCHANGED <<sock, data, rooms, roomKeys, roomMembers, db, nextId>>

\* messageService.create: the persisted message.
Create(n, userId, roomId, content) ==
    [id |-> n, roomId |-> roomId, userId |-> userId, content |-> content]

\* Mutant: the message is sent to each subscriber's socket and again to the
\* room's group.
SendMessageEmitsTwice(rms, roomId, message, outcome) ==
    IF outcome = "ok"
      THEN << Broadcast(rms, RoomGroup(roomId), "newMessage", message),
              Broadcast(rms, RoomGroup(roomId), "newMessage", message) >>
      ELSE <<>>

\* The try block after the await, or the catch block.
SendMessageEmits(rms, roomId, message, outcome) ==
    IF outcome = "ok"
      THEN << Broadcast(rms, RoomGroup(roomId), "newMessage", message) >>
      ELSE <<>>

SendMessageResult(outcome) == IF outcome = "ok" THEN "true" ELSE "false"

SendMessageReturn(t, outcome) ==
    /\ t \in tasks /\ t.op = "sendMessage" /\ t.pc = "create"
    /\ outcome \in CreateOutcomes(db, nextId)
    /\ tasks' = tasks \ {t}
    /\ LET message == Create(nextId, data[t.conn], t.room, t.content)
       IN  /\ db' = IF outcome = "ok" THEN [db EXCEPT ![nextId] = message] ELSE db
           /\ nextId' = IF outcome = "ok" THEN nextId + 1 ELSE nextId
           /\ emits' = SendMessageEmits(rooms, t.room, message, outcome)
    /\ lastOp' = Op("sendMessage", "return", t.conn, t.room, 0, outcome,
                    SendMessageResult(outcome), t.wasJoined, NoUser, NoRoom)
    /\ UNCHANGED <<sock, data, rooms, roomKeys, roomMembers>>

(***************************************************************************)
(* handleUpdateMessage                                                     *)
(***************************************************************************)
UpdateMessageStart(c, id, content) ==
    /\ sock[c] = "live"
    /\ LET t == Task(c, "updateMessage", "update", NoRoom, id, content, FALSE)
       IN  /\ t \notin tasks
           /\ tasks' = tasks \cup {t}
    /\ emits' = <<>>
    /\ lastOp' = Quiet
    /\ UNCHANGED <<sock, data, rooms, roomKeys, roomMembers, db, nextId>>

\* messageService.update: the message with its new content.
Update(d, id, content) == [d[id] EXCEPT !.content = content]

\* Mutant: the update is sent back to the caller instead of the room's group.
UpdateMessageEmitsToClient(rms, c, updatedMessage, outcome) ==
    IF outcome = "ok"
      THEN << [ev |-> "messageUpdated", target |-> c, to |-> {c},
               payload |-> updatedMessage] >>
      ELSE <<>>

UpdateMessageEmits(rms, c, updatedMessage, outcome) ==
    IF outcome = "ok"
      THEN << Broadcast(rms, RoomGroup(updatedMessage.roomId), "messageUpdated",
                        updatedMessage) >>
      ELSE <<>>

UpdateMessageResult(outcome) == IF outcome = "ok" THEN "true" ELSE "false"

UpdateMessageReturn(t, outcome) ==
    /\ t \in tasks /\ t.op = "updateMessage" /\ t.pc = "update"
    /\ outcome \in UpdateOutcomes(db, t.msg, data[t.conn])
    /\ tasks' = tasks \ {t}
    /\ LET updatedMessage == IF outcome = "ok" THEN Update(db, t.msg, t.content)
                                               ELSE NoMsg
       IN  /\ db' = IF outcome = "ok" THEN [db EXCEPT ![t.msg] = updatedMessage] ELSE db
           /\ emits' = UpdateMessageEmits(rooms, t.conn, updatedMessage, outcome)
    /\ lastOp' = Op("updateMessage", "return", t.conn, NoRoom, t.msg, outcome,
                    UpdateMessageResult(outcome), FALSE,
                    AuthorOf(db, t.msg), RoomOf(db, t.msg))
    /\ UNCHANGED <<sock, data, rooms, roomKeys, roomMembers, nextId>>

(***************************************************************************)
(* handleDeleteMessage                                                     *)
(***************************************************************************)
\* The segment up to `await this.messageService.findOne(...)'.
DeleteMessageStart(c, id) ==
    /\ sock[c] = "live"
    /\ LET t == Task(c, "deleteMessage", "findOne", NoRoom, id, "-", FALSE)
       IN  /\ t \notin tasks
           /\ tasks' = tasks \cup {t}
    /\ emits' = <<>>
    /\ lastOp' = Quiet
    /\ UNCHANGED <<sock, data, rooms, roomKeys, roomMembers, db, nextId>>

\* The rest of the try block once remove has returned, or the catch block.
\* Mutant: the deletion is announced before remove is awaited, so also when
\* remove then fails.
DeleteMessageEmitsAlways(rms, c, id, roomId, outcome) ==
    << Broadcast(rms, RoomGroup(roomId), "messageDeleted",
                 [id |-> id, roomId |-> roomId]) >>

DeleteMessageEmits(rms, c, id, roomId, outcome) ==
    IF outcome = "ok"
      THEN << Broadcast(rms, RoomGroup(roomId), "messageDeleted",
                        [id |-> id, roomId |-> roomId]) >>
      ELSE <<>>

DeleteMessageResult(outcome) == IF outcome = "ok" THEN "true" ELSE "false"

\* findOne returns: the handler keeps message.roomId and awaits remove; or it
\* throws: the catch block returns the failure.
DeleteMessageFound(t, outcome) ==
    /\ t \in tasks /\ t.op = "deleteMessage" /\ t.pc = "findOne"
    /\ outcome \in FindOneOutcomes(db, t.msg)
    /\ tasks' = IF outcome = "ok"
                  THEN (tasks \ {t}) \cup
                       {[t EXCEPT !.pc = "remove", !.room = db[t.msg].roomId]}
                  ELSE tasks \ {t}
    /\ emits' = <<>>
    /\ lastOp' = Op("deleteMessage", IF outcome = "ok" THEN "found" ELSE "return",
                    t.conn, NoRoom, t.msg, outcome,
                    IF outcome = "ok" THEN "-" ELSE DeleteMessageResult(outcome),
                    FALSE, AuthorOf(db, t.msg), RoomOf(db, t.msg))
    /\ UNCHANGED <<sock, data, rooms, roomKeys, roomMembers, db, nextId>>

DeleteMessageReturn(t, outcome) ==
    /\ t \in tasks /\ t.op = "deleteMessage" /\ t.pc = "remove"
    /\ outcome \in RemoveOutcomes(db, t.msg, data[t.conn])
    /\ tasks' = tasks \ {t}
    /\ db' = IF outcome = "ok" THEN [db EXCEPT ![t.msg] = NoMsg] ELSE db
    /\ emits' = DeleteMessageEmits(rooms, t.conn, t.msg, t.room, outcome)
    /\ lastOp' = Op("deleteMessage", "return", t.conn, t.room, t.msg, outcome,
                    DeleteMessageResult(outcome), FALSE,
                    AuthorOf(db, t.msg), RoomOf(db, t.msg))
    /\ UNCHANGED <<sock, data, rooms, roomKeys, roomMembers, nextId>>

(***************************************************************************)
(* useRoomSocket, the client hook, mounted on the connection HookConn.      *)
(* Its commands travel to the gateway in `hook.outbox', in the order they   *)
(* were emitted; the events the gateway delivers to HookConn run the        *)
(* hook's listeners in the order they were emitted.                         *)
(***************************************************************************)
HookConn == "c1"
HookRooms == Rooms \cup {NoRoom}

\* socket.emit(cmd, ...)
Cmd(cmd, room, content) == [cmd |-> cmd, room |-> room, content |-> content]
EmitIf(cond, cmd, room) == IF cond THEN << Cmd(cmd, room, "-") >> ELSE <<>>

\* JavaScript values and ===.  A primitive equals a primitive of the same
\* value; an object deserialised from a packet is identical to no other value.
JsPrimitive(v) == [type |-> "primitive", val |-> v]
JsObject(o) == [type |-> "object", val |-> o]
StrictEquals(a, b) == a.type = "primitive" /\ b.type = "primitive" /\ a.val = b.val

\* The listeners the connection effect registers.
OnRoomMembers(h, members) == [h EXCEPT !.roomMembers = members]
OnMessageHistory(h, messages) == [h EXCEPT !.messages = messages]
OnNewMessage(h, message) == [h EXCEPT !.messages = Append(@, message)]
OnMessageUpdated(h, message) ==
    LET prev == h.messages
    IN  [h EXCEPT !.messages =
            [k \in 1..Len(prev) |-> IF prev[k].id = message.id THEN message ELSE prev[k]]]
\* prev.filter((msg) => msg.id !== messageId)
OnMessageDeleted(h, messageId) ==
    [h EXCEPT !.messages =
        SelectSeq(@, LAMBDA msg : ~StrictEquals(JsPrimitive(msg.id), messageId))]

\* The listener of an event.  The gateway's messageDeleted payload is the
\* object {id, roomId}; the hook registers no listener for the other events.
Dispatch(h, e) ==
    CASE e.ev = "roomMembers" -> OnRoomMembers(h, e.payload)
      [] e.ev = "messageHistory" -> OnMessageHistory(h, e.payload)
      [] e.ev = "newMessage" -> OnNewMessage(h, e.payload)
      [] e.ev = "messageUpdated" -> OnMessageUpdated(h, e.payload)
      [] e.ev = "messageDeleted" -> OnMessageDeleted(h, JsObject(e.payload))
      [] OTHER -> h

Listening(h) == h.socket /\ ~h.unmounted

\* The events of `out', from the i-th on, that reach HookConn.
RECURSIVE Receive(_, _, _)
Receive(h, out, i) ==
    IF i > Len(out)
      THEN h
      ELSE Receive(IF HookConn \in out[i].to /\ Listening(h)
                     THEN Dispatch(h, out[i]) ELSE h,
                   out, i + 1)

\* A step of the hook: the gateway does not move.
HookStep(h) ==
    /\ hook' = h
    /\ emits' = <<>>
    /\ lastOp' = Quiet
    /\ UNCHANGED <<sock, data, rooms, roomKeys, roomMembers, tasks, db, nextId, announced>>

\* The first render with roomId = prop, and the connection effect after it.
Mount(prop) ==
    /\ ~hook.mounted
    /\ HookStep([hook EXCEPT !.mounted = TRUE, !.socket = TRUE,
                             !.roomId = prop, !.currentRoom = prop,
                             !.mountRoom = prop, !.dirty = TRUE,
                             !.outbox = EmitIf(prop # NoRoom, "joinRoom", prop),
                             !.byCallback = FALSE, !.requested = prop])

\* The cleanup of the connection effect; its currentRoom is the one of the
\* render the effect ran in.
Unmount ==
    /\ hook.mounted /\ ~hook.unmounted
    /\ HookStep([hook EXCEPT !.unmounted = TRUE,
                             !.outbox = @ \o EmitIf(hook.mountRoom # NoRoom,
                                                    "leaveRoom", hook.mountRoom)])

\* The parent renders the hook with another roomId.
SetProp(prop) ==
    /\ hook.mounted /\ ~hook.unmounted
    /\ prop # hook.roomId
    /\ HookStep([hook EXCEPT !.roomId = prop, !.dirty = TRUE,
                             !.byCallback = FALSE, !.requested = prop])

\* The room-change effect, run after a render in which one of socket, roomId
\* and currentRoom changed.
RoomEffect ==
    /\ hook.mounted /\ ~hook.unmounted
    /\ hook.dirty
    /\ IF hook.socket /\ hook.roomId # hook.currentRoom
         THEN HookStep([hook EXCEPT
                  !.outbox = @ \o EmitIf(hook.currentRoom # NoRoom, "leaveRoom",
                                         hook.currentRoom)
                               \o EmitIf(hook.roomId # NoRoom, "joinRoom", hook.roomId),
                  !.currentRoom = hook.roomId])
         ELSE HookStep([hook EXCEPT !.dirty = FALSE])

\* The joinRoom callback.
JoinRoomCallback(newRoomId) ==
    /\ hook.mounted /\ ~hook.unmounted
    /\ hook.socket /\ newRoomId # hook.currentRoom
    /\ HookStep([hook EXCEPT
           !.outbox = @ \o EmitIf(hook.currentRoom # NoRoom, "leaveRoom",
                                  hook.currentRoom)
                        \o << Cmd("joinRoom", newRoomId, "-") >>,
           !.currentRoom = newRoomId, !.dirty = TRUE,
           !.byCallback = TRUE, !.requested = newRoomId])

\* The leaveRoom callback.
LeaveRoomCallback ==
    /\ hook.mounted /\ ~hook.unmounted
    /\ hook.socket /\ hook.currentRoom # NoRoom
    /\ HookStep([hook EXCEPT
           !.outbox = @ \o << Cmd("leaveRoom", hook.currentRoom, "-") >>,
           !.currentRoom = NoRoom, !.dirty = TRUE,
           !.byCallback = TRUE, !.requested = NoRoom])

\* The sendMessage callback.
SendMessageCallback(content) ==
    /\ hook.mounted /\ ~hook.unmounted
    /\ hook.socket /\ hook.currentRoom # NoRoom
    /\ HookStep([hook EXCEPT
           !.outbox = @ \o << Cmd("sendMessage", hook.currentRoom, content) >>])

\* The gateway takes the hook's next command.
Arrive ==
    /\ sock[HookConn] = "live"
    /\ hook.outbox # <<>>
    /\ LET head == Head(hook.outbox)
       IN  CASE head.cmd = "joinRoom" -> JoinRoomStart(HookConn, head.room)
             [] head.cmd = "leaveRoom" -> LeaveRoomStart(HookConn, head.room)
             [] head.cmd = "sendMessage" ->
                    SendMessageStart(HookConn, head.room, head.content)
    /\ hook' = Receive([hook EXCEPT !.outbox = Tail(@)], emits', 1)
    /\ UNCHANGED announced

\* A step of the gateway, whose events reach the hook.
Deliver == hook' = Receive(hook, emits', 1) /\ UNCHANGED announced

(***************************************************************************)
(* Specifications.                                                         *)
(*   Spec      the presence handlers over three connections and two rooms,  *)
(*             an event arriving only while fewer than MaxTasks handlers    *)
(*             are suspended;                                               *)
(*   SpecRace  the presence handlers over three connections and one room,   *)
(*             with handlers suspended concurrently;                        *)
(*   SpecMsg   the message handlers, with the joins, leaves and disconnects *)
(*             that shape the group, over two connections of two users;     *)
(*   SpecAuth  handshakes with any token and disconnects whose emissions    *)
(*             may throw, over two connections and two rooms;               *)
(*   SpecPar   joins, leaves, sends and queries of two connections, with    *)
(*             handlers suspended concurrently;                             *)
(*   SpecAlt   the presence handlers, one event at a time, with the history *)
(*             of the presence events emitted;                              *)
(*   SpecHook  the useRoomSocket client on one connection and the gateway   *)
(*             answering its commands, one at a time.                       *)
(***************************************************************************)
InFlight(n) == Cardinality(tasks) < n

\* The gateway alone: no client hook is mounted and no history is kept.
Still == UNCHANGED <<announced, hook>>

Next ==
    \/ \E c \in Conns, token \in Tokens :
          InFlight(MaxTasks) /\ HandleConnection(c, token) /\ Still
    \/ \E c \in Conns : InFlight(MaxTasks) /\ HandleDisconnect(c) /\ Still
    \/ \E c \in Conns, r \in Rooms : InFlight(MaxTasks) /\ JoinRoomStart(c, r) /\ Still
    \/ \E t \in tasks : JoinRoomAdd(t) /\ Still
    \/ \E t \in tasks, outcome \in Outcomes : JoinRoomReturn(t, outcome) /\ Still
    \/ \E c \in Conns, r \in Rooms : InFlight(MaxTasks) /\ LeaveRoomStart(c, r) /\ Still
    \/ \E t \in tasks : LeaveRoomFinish(t) /\ Still
    \/ \E c \in Conns, r \in Rooms :
          InFlight(MaxTasks) /\ HandleGetRoomMembers(c, r) /\ Still

Spec == Init /\ [][Next]_vars

RaceRooms == {"R1"}

NextRace ==
    \/ \E c \in Conns : HandleConnection(c, "good") /\ Still
    \/ \E c \in Conns : HandleDisconnect(c) /\ Still
    \/ \E c \in Conns, r \in RaceRooms : InFlight(MaxRaceTasks) /\ JoinRoomStart(c, r) /\ Still
    \/ \E t \in tasks : JoinRoomAdd(t) /\ Still
    \/ \E t \in tasks, outcome \in Outcomes : JoinRoomReturn(t, outcome) /\ Still
    \/ \E c \in Conns, r \in RaceRooms : InFlight(MaxRaceTasks) /\ LeaveRoomStart(c, r) /\ Still
    \/ \E t \in tasks : LeaveRoomFinish(t) /\ Still
    \/ \E c \in Conns, r \in RaceRooms : HandleGetRoomMembers(c, r) /\ Still

SpecRace == Init /\ [][NextRace]_vars

MsgConns == {"c1", "c3"}
MsgRooms == {"R1"}

NextMsg ==
    \/ \E c \in MsgConns : HandleConnection(c, "good") /\ Still
    \/ \E c \in MsgConns : HandleDisconnect(c) /\ Still
    \/ \E c \in MsgConns, r \in MsgRooms : InFlight(MaxMsgTasks) /\ JoinRoomStart(c, r) /\ Still
    \/ \E t \in tasks : JoinRoomAdd(t) /\ Still
    \/ \E t \in tasks, outcome \in Outcomes : JoinRoomReturn(t, outcome) /\ Still
    \/ \E c \in MsgConns, r \in MsgRooms : InFlight(MaxMsgTasks) /\ LeaveRoomStart(c, r) /\ Still
    \/ \E t \in tasks : LeaveRoomFinish(t) /\ Still
    \/ \E c \in MsgConns, r \in MsgRooms :
          InFlight(MaxMsgTasks) /\ SendMessageStart(c, r, "hi") /\ Still
    \/ \E t \in tasks, outcome \in Outcomes : SendMessageReturn(t, outcome) /\ Still
    \/ \E c \in MsgConns, id \in MsgIds, content \in Contents :
          InFlight(MaxMsgTasks) /\ UpdateMessageStart(c, id, content) /\ Still
    \/ \E t \in tasks, outcome \in Outcomes : UpdateMessageReturn(t, outcome) /\ Still
    \/ \E c \in MsgConns, id \in MsgIds :
          InFlight(MaxMsgTasks) /\ DeleteMessageStart(c, id) /\ Still
    \/ \E t \in tasks, outcome \in Outcomes : DeleteMessageFound(t, outcome) /\ Still
    \/ \E t \in tasks, outcome \in Outcomes : DeleteMessageReturn(t, outcome) /\ Still

SpecMsg == Init /\ [][NextMsg]_vars

AuthConns == {"c1", "c3"}

NextAuth ==
    \/ \E c \in AuthConns, token \in Tokens : HandleConnection(c, token) /\ Still
    \/ \E c \in AuthConns : HandleDisconnect(c) /\ Still
    \/ \E c \in AuthConns, r \in Rooms, ev \in PresenceEvents :
          HandleDisconnectThrow(c, r, ev) /\ Still
    \/ \E c \in AuthConns, r \in Rooms : InFlight(MaxAuthTasks) /\ JoinRoomStart(c, r) /\ Still
    \/ \E t \in tasks : JoinRoomAdd(t) /\ Still
    \/ \E t \in tasks, outcome \in Outcomes : JoinRoomReturn(t, outcome) /\ Still
    \/ \E c \in AuthConns, r \in Rooms : InFlight(MaxAuthTasks) /\ LeaveRoomStart(c, r) /\ Still
    \/ \E t \in tasks : LeaveRoomFinish(t) /\ Still

SpecAuth == Init /\ [][NextAuth]_vars

ParConns == {"c1", "c3"}
ParRooms == {"R1"}

NextPar ==
    \/ \E c \in ParConns : HandleConnection(c, "good") /\ Still
    \/ \E c \in ParConns : HandleDisconnect(c) /\ Still
    \/ \E c \in ParConns, r \in ParRooms : InFlight(MaxParTasks) /\ JoinRoomStart(c, r) /\ Still
    \/ \E t \in tasks : JoinRoomAdd(t) /\ Still
    \/ \E t \in tasks, outcome \in Outcomes : JoinRoomReturn(t, outcome) /\ Still
    \/ \E c \in ParConns, r \in ParRooms : InFlight(MaxParTasks) /\ LeaveRoomStart(c, r) /\ Still
    \/ \E t \in tasks : LeaveRoomFinish(t) /\ Still
    \/ \E c \in ParConns, r \in ParRooms :
          InFlight(MaxParTasks) /\ SendMessageStart(c, r, "hi") /\ Still
    \/ \E t \in tasks, outcome \in Outcomes : SendMessageReturn(t, outcome) /\ Still
    \/ \E c \in ParConns, r \in ParRooms : HandleGetRoomMembers(c, r) /\ Still

SpecPar == Init /\ [][NextPar]_vars

\* History: the presence event last emitted for each (user, room), after the
\* events `out' of a step.  A step emits at most one presence event per pair.
Announced(prev, out) ==
    [p \in Users \X Rooms |->
        IF \E i \in 1..Len(out) :
               out[i].ev = "userJoined" /\ out[i].payload = Presence(p[1], p[2])
          THEN "joined"
          ELSE IF \E i \in 1..Len(out) :
                      out[i].ev = "userLeft" /\ out[i].payload = Presence(p[1], p[2])
                 THEN "left"
                 ELSE prev[p]]

Announce == announced' = Announced(announced, emits') /\ UNCHANGED hook

NextAlt ==
    \/ \E c \in Conns : InFlight(MaxTasks) /\ HandleConnection(c, "good") /\ Announce
    \/ \E c \in Conns : InFlight(MaxTasks) /\ HandleDisconnect(c) /\ Announce
    \/ \E c \in Conns, r \in RaceRooms :
          InFlight(MaxTasks) /\ JoinRoomStart(c, r) /\ Announce
    \/ \E t \in tasks : JoinRoomAdd(t) /\ Announce
    \/ \E t \in tasks, outcome \in Outcomes : JoinRoomReturn(t, outcome) /\ Announce
    \/ \E c \in Conns, r \in RaceRooms :
          InFlight(MaxTasks) /\ LeaveRoomStart(c, r) /\ Announce
    \/ \E t \in tasks : LeaveRoomFinish(t) /\ Announce

SpecAlt == Init /\ [][NextAlt]_vars

\* The user acts on the rendered hook once its effects have run and its
\* commands have left.
Settled == ~hook.dirty /\ hook.outbox = <<>>

NextHook ==
    \/ \E prop \in HookRooms : Mount(prop)
    \/ Unmount
    \/ \E prop \in HookRooms : Settled /\ SetProp(prop)
    \/ RoomEffect
    \/ \E r \in Rooms : Settled /\ sock[HookConn] = "live" /\ JoinRoomCallback(r)
    \/ Settled /\ sock[HookConn] = "live" /\ LeaveRoomCallback
    \/ Settled /\ sock[HookConn] = "live" /\ SendMessageCallback("hi")
    \/ Listening(hook) /\ HandleConnection(HookConn, "good") /\ Deliver
    \/ hook.unmounted /\ hook.outbox = <<>> /\ HandleDisconnect(HookConn) /\ Deliver
    \/ InFlight(MaxTasks) /\ Arrive
    \/ \E t \in tasks : JoinRoomAdd(t) /\ Deliver
    \/ \E t \in tasks, outcome \in Outcomes : JoinRoomReturn(t, outcome) /\ Deliver
    \/ \E t \in tasks : LeaveRoomFinish(t) /\ Deliver
    \/ \E t \in tasks, outcome \in Outcomes : SendMessageReturn(t, outcome) /\ Deliver
    \/ \E id \in MsgIds :
          InFlight(MaxTasks) /\ Listening(hook) /\ DeleteMessageStart(HookConn, id) /\ Deliver
    \/ \E t \in tasks, outcome \in Outcomes : DeleteMessageFound(t, outcome) /\ Deliver
    \/ \E t \in tasks, outcome \in Outcomes : DeleteMessageReturn(t, outcome) /\ Deliver

SpecHook == Init /\ [][NextHook]_vars

(***************************************************************************)
(* Properties.                                                             *)
(***************************************************************************)
Quiescent == tasks = {}
HoldsJoin(c, r) == sock[c] = "live" /\ RoomGroup(r) \in rooms[c]
MembersOf(r) == IF MapHas(r) THEN Elems(roomMembers[r]) ELSE {}

\* The positions of `out' that hold event ev addressed to room r's group.
At(out, ev, r) ==
    {i \in 1..Len(out) : out[i].ev = ev /\ out[i].target = RoomGroup(r)}

Returned(op) == lastOp.op = op /\ lastOp.step = "return"

\* C1: when no handler is suspended, a user is in a room's member set if and
\* only if one of that user's live connections holds a join for the room.
C1_MemberIffSomeConnectionJoined ==
    Quiescent =>
        \A u \in Users, r \in Rooms :
            u \in MembersOf(r) <=> \E c \in Conns : data[c] = u /\ HoldsJoin(c, r)

\* C2: with two connections of a user and a connection of another user joined
\* to a room, the disconnect of one of the two emits no userLeft for the user
\* and leaves the member set as it was; the disconnect of the user's last
\* joined connection emits userLeft for the user exactly once.
C2_OnlyLastConnectionLeaves ==
    [][\A c \in Conns, r \in Rooms :
          (Quiescent /\ sock[c] = "live" /\ sock'[c] = "closed" /\ HoldsJoin(c, r)
             /\ MembersOf(r) = Users)
          => LET others == {d \in Conns \ {c} : data[d] = data[c] /\ HoldsJoin(d, r)}
                 left == {i \in At(emits', "userLeft", r) :
                             emits'[i].payload = Presence(data[c], r)}
             IN  IF others # {}
                   THEN left = {} /\ roomMembers'[r] = roomMembers[r]
                   ELSE Cardinality(left) = 1
      ]_vars

\* C3: the disconnect of a connection emits exactly one roomMembers and one
\* userLeft for each room the connection had joined and none for any other
\* room, each delivered to the connections that remain in the room's group.
C3_OnePairPerJoinedRoom ==
    [][\A c \in Conns, r \in Rooms :
          (Quiescent /\ sock[c] = "live" /\ sock'[c] = "closed")
          => LET n == IF RoomGroup(r) \in rooms[c] THEN 1 ELSE 0
             IN  /\ Cardinality(At(emits', "userLeft", r)) = n
                 /\ Cardinality(At(emits', "roomMembers", r)) = n
                 /\ \A i \in At(emits', "userLeft", r) \cup At(emits', "roomMembers", r) :
                        emits'[i].to = ServerTo(rooms', RoomGroup(r))
      ]_vars

\* C4: a sendMessage for a room the connection had not joined returns a
\* failure and emits nothing.
C4_SendRequiresJoin ==
    (Returned("sendMessage") /\ ~lastOp.wasJoined)
        => lastOp.success = "false" /\ emits = <<>>

\* C5 as stated: updateMessage or deleteMessage by a non-author fails and emits
\* nothing; by the author it succeeds (its persistence calls succeeding) and
\* emits exactly one event to the group of the message's room.
MsgEvent(op) == IF op = "updateMessage" THEN "messageUpdated" ELSE "messageDeleted"

OneEventToMessageRoom ==
    /\ Len(emits) = 1
    /\ emits[1].ev = MsgEvent(lastOp.op)
    /\ emits[1].target = RoomGroup(lastOp.msgRoom)
    /\ emits[1].to = ServerTo(rooms, RoomGroup(lastOp.msgRoom))

C5_AuthorOnly ==
    (Returned("updateMessage") \/ Returned("deleteMessage"))
        => IF data[lastOp.conn] = lastOp.author
             THEN lastOp.outcome = "ok" => lastOp.success = "true" /\ OneEventToMessageRoom
             ELSE lastOp.success = "false" /\ emits = <<>>

\* C5 amended: updateMessage by a non-author, and deleteMessage by a connection
\* that is neither the author nor the owner of the message's room, fail and
\* emit nothing; the author's command succeeds whenever its persistence calls
\* do; every success emits exactly one event, to the group of the message's
\* room, and every failure emits nothing.
C5_AuthorOrOwner ==
    (Returned("updateMessage") \/ Returned("deleteMessage"))
        => LET me == data[lastOp.conn]
               allowed == \/ me = lastOp.author
                          \/ /\ lastOp.op = "deleteMessage"
                             /\ me = RoomOwner(lastOp.msgRoom)
           IN  /\ ~allowed => lastOp.success = "false"
               /\ (me = lastOp.author /\ lastOp.outcome = "ok") => lastOp.success = "true"
               /\ lastOp.success = "true" => OneEventToMessageRoom
               /\ lastOp.success = "false" => emits = <<>>

C5_Witness ==
    /\ Returned("updateMessage")
    /\ data[lastOp.conn] = lastOp.author
    /\ lastOp.success = "true"
    /\ Len(emits) = 1 /\ emits[1].to # {}

\* C6: newMessage, messageUpdated and messageDeleted are emitted only by the
\* step in which the persistence call returned successfully, when the change
\* is in the store; a failed persistence call ends the command with
\* success = false and no emission.
MsgOps == {"sendMessage", "updateMessage", "deleteMessage"}

Durable(e) ==
    CASE e.ev = "newMessage" -> Exists(db, e.payload.id) /\ db[e.payload.id] = e.payload
      [] e.ev = "messageUpdated" -> Exists(db, e.payload.id) /\ db[e.payload.id] = e.payload
      [] e.ev = "messageDeleted" -> ~Exists(db, e.payload.id)
      [] OTHER -> TRUE

C6_EmitAfterPersist ==
    /\ \A i \in 1..Len(emits) :
          emits[i].ev \in {"newMessage", "messageUpdated", "messageDeleted"}
            => /\ lastOp.op \in MsgOps /\ lastOp.step = "return"
               /\ lastOp.outcome = "ok"
               /\ Durable(emits[i])
    /\ (lastOp.op \in MsgOps /\ lastOp.outcome = "fail")
          => emits = <<>> /\ lastOp.success = "false"

\* remove fails after findOne succeeded.
C6_Witness ==
    /\ Returned("deleteMessage")
    /\ lastOp.room # NoRoom
    /\ lastOp.outcome = "fail"
    /\ ServerTo(rooms, RoomGroup(lastOp.room)) # {}

\* C7 as stated: a successful join emits userJoined before its roomMembers
\* snapshot.
JoinedOk == Returned("joinRoom") /\ lastOp.outcome = "ok"

LeftJoined == Returned("leaveRoom") /\ lastOp.wasJoined

C8_LeaverReceives ==
    LeftJoined =>
        /\ \E i \in At(emits, "userLeft", lastOp.room) : lastOp.conn \in emits[i].to
        /\ \E i \in At(emits, "roomMembers", lastOp.room) : lastOp.conn \in emits[i].to

\* C8 amended: a leaveRoom by a joined connection emits one userLeft, preceded
\* by one roomMembers snapshot if the room has a membership entry, to the
\* connections then in the room's group; the leaving connection is not among
\* them unless it has asked to join the room again in the meantime.
C8_LeaverExcluded ==
    LeftJoined =>
        LET ls == At(emits, "userLeft", lastOp.room)
            ms == At(emits, "roomMembers", lastOp.room)
        IN  /\ Cardinality(ls) = 1
            /\ Cardinality(ms) = IF MapHas(lastOp.room) THEN 1 ELSE 0
            /\ \A i \in ls \cup ms :
                  /\ emits[i].to = ServerTo(rooms, RoomGroup(lastOp.room))
                  /\ ~lastOp.rejoined => lastOp.conn \notin emits[i].to
            /\ \A i \in ms : /\ \A j \in ls : i < j
                             /\ emits[i].payload = roomMembers[lastOp.room]
            /\ \A j \in ls : emits[j].payload = Presence(data[lastOp.conn], lastOp.room)

C8_Witness ==
    /\ LeftJoined /\ ~lastOp.rejoined
    /\ ServerTo(rooms, RoomGroup(lastOp.room)) # {}
    /\ At(emits, "roomMembers", lastOp.room) # {}

\* C9: a leaveRoom by a connection that had not joined the room changes no
\* member set and delivers no event to any connection.
C9_LeaveRequiresJoin ==
    [][(lastOp'.op = "leaveRoom" /\ lastOp'.step = "return" /\ ~lastOp'.wasJoined)
          => /\ roomMembers' = roomMembers /\ roomKeys' = roomKeys
             /\ \A i \in 1..Len(emits') : emits'[i].to = {}
      ]_vars

\* C10: getRoomMembers changes no member set and no subscription, and sends
\* one roomMembers event, to the requester only, that holds the room's members,
\* or the empty list if the room has no entry; joined or not, it succeeds.
C10_GetRoomMembersPure ==
    [][lastOp'.op = "getRoomMembers"
          => /\ roomMembers' = roomMembers /\ roomKeys' = roomKeys
             /\ rooms' = rooms /\ sock' = sock /\ tasks' = tasks
             /\ lastOp'.success = "true"
             /\ Len(emits') = 1
             /\ emits'[1].ev = "roomMembers"
             /\ emits'[1].target = lastOp'.conn
             /\ emits'[1].to = {lastOp'.conn}
             /\ emits'[1].payload = IF SetHas(roomKeys, lastOp'.room)
                                      THEN roomMembers[lastOp'.room] ELSE <<>>
      ]_vars

\* A connection that has not joined asks for a room that has no entry while
\* another connection is subscribed to the room's group.
C10_Witness ==
    /\ lastOp.op = "getRoomMembers" /\ ~lastOp.wasJoined
    /\ ~MapHas(lastOp.room)
    /\ ServerTo(rooms, RoomGroup(lastOp.room)) # {}
    /\ emits = << [ev |-> "roomMembers", target |-> lastOp.conn,
                   to |-> {lastOp.conn}, payload |-> <<>>] >>

\* C11: a handshake that carries no token, or a token that fails verification,
\* ends with the connection disconnected and without identity; a connection
\* without identity is never live, is subscribed to no group, has no handler
\* running or suspended, and stays so; no member set ever holds an absent
\* identity.
Rejected(c) == sock[c] = "closed" /\ data[c] = NoUser

NotAdmitted ==
    /\ (lastOp.op = "connect" /\ lastOp.step # "good") => Rejected(lastOp.conn)
    /\ \A c \in Conns :
          data[c] = NoUser =>
              /\ sock[c] # "live"
              /\ rooms[c] = {}
              /\ \A t \in tasks : t.conn # c
              /\ lastOp.conn = c => lastOp.op = "connect"
    /\ \A r \in Rooms : NoUser \notin Elems(roomMembers[r])

\* C11: a connection without a valid token is never admitted, and stays out.
C11_NeverAdmitted ==
    /\ []NotAdmitted
    /\ [][\A c \in Conns : Rejected(c) => Rejected(c)']_vars

\* A connection was turned away and another one has since joined a room.
C11_Witness ==
    /\ \E c \in Conns : Rejected(c)
    /\ JoinedOk
    /\ MembersOf(lastOp.room) # {}

\* C12: a successful sendMessage emits one newMessage event, delivered to
\* exactly the connections subscribed to the room's group at that moment, whose
\* payload is the persisted message with its id, its room and the sender as
\* author; no other step emits a newMessage event, so a connection that joins
\* later receives none.
C12_NewMessageToGroupOnce ==
    /\ (Returned("sendMessage") /\ lastOp.success = "true")
          => /\ Len(emits) = 1
             /\ emits[1].ev = "newMessage"
             /\ emits[1].target = RoomGroup(lastOp.room)
             /\ emits[1].to = ServerTo(rooms, RoomGroup(lastOp.room))
             /\ emits[1].payload.id \in MsgIds
             /\ emits[1].payload = db[emits[1].payload.id]
             /\ emits[1].payload.userId = data[lastOp.conn]
             /\ emits[1].payload.roomId = lastOp.room
    /\ \A i \in 1..Len(emits) :
          emits[i].ev = "newMessage"
            => Returned("sendMessage") /\ lastOp.success = "true"

\* Both connections are in the group and receive the message.
C12_Witness ==
    /\ Returned("sendMessage") /\ lastOp.success = "true"
    /\ Len(emits) = 1
    /\ emits[1].to = MsgConns

\* C13: when an emission throws during the cleanup of a disconnect, the user
\* of the departing connection is in no room's member set once handleDisconnect
\* has returned.
C13_CleanupCompletes ==
    (lastOp.op = "disconnect" /\ lastOp.step = "catch")
        => \A r \in Rooms : data[lastOp.conn] \notin MembersOf(r)

\* C14: a joinRoom on a connection that is already subscribed to the room's
\* group broadcasts no userJoined event.
C14_RejoinSilent ==
    (JoinedOk /\ lastOp.wasJoined)
        => At(emits, "userJoined", lastOp.room) = {}

\* C15: when a joinRoom returns on a connection that has disconnected while the
\* handler was suspended, the connection's user is not in the room's member
\* set unless another live connection of the user is joined to the room.
C15_DisconnectCoversJoin ==
    (Returned("joinRoom") /\ sock[lastOp.conn] = "closed"
       /\ \A t \in tasks : t.conn # lastOp.conn)
        => (data[lastOp.conn] \in MembersOf(lastOp.room)
              => \E d \in Conns \ {lastOp.conn} :
                    data[d] = data[lastOp.conn] /\ HoldsJoin(d, lastOp.room))

\* C16: a joinRoom whose history fetch fails leaves the connection's
\* subscriptions as they were when the command arrived and emits nothing.
C16_FailedJoinNoEffect ==
    (Returned("joinRoom") /\ lastOp.outcome = "fail" /\ ~lastOp.wasJoined)
        => /\ RoomGroup(lastOp.room) \notin rooms[lastOp.conn]
           /\ emits = <<>>

\* C17: the roomMembers snapshot that ends a successful joinRoom of a
\* connection that is still subscribed to the room's group holds the
\* connection's user.
C17_SnapshotHoldsJoiner ==
    (JoinedOk /\ HoldsJoin(lastOp.conn, lastOp.room))
        => \A i \in At(emits, "roomMembers", lastOp.room) :
              SetHas(emits[i].payload, data[lastOp.conn])

\* C18: a step of sendMessage, updateMessage or deleteMessage changes no member
\* set and no subscription; a step that changes a member set is a step of
\* joinRoom or leaveRoom, or a disconnect.
Stepped == (tasks \ tasks') \cup (tasks' \ tasks)

\* C18: the message commands change no member set and no subscription.
C18_MessageCommandsFrame ==
    [][/\ (\E t \in Stepped : t.op \in MsgOps)
            => /\ roomMembers' = roomMembers /\ roomKeys' = roomKeys
               /\ rooms' = rooms
       /\ (roomMembers' # roomMembers \/ roomKeys' # roomKeys)
            => \/ \E t \in Stepped : t.op \in {"joinRoom", "leaveRoom"}
               \/ \E c \in Conns : sock[c] = "live" /\ sock'[c] = "closed"
      ]_vars

\* A connection that has not joined the room sends to it: it is neither
\* subscribed nor made a member.
C18_Witness ==
    /\ Returned("sendMessage") /\ lastOp.success = "true" /\ ~lastOp.wasJoined
    /\ RoomGroup(lastOp.room) \notin rooms[lastOp.conn]
    /\ data[lastOp.conn] \notin MembersOf(lastOp.room)
    /\ MembersOf(lastOp.room) # {}

\* C19: while a handler is suspended on the persistence service, every command
\* of another live connection that has no handler suspended can start, every
\* suspended handler of another connection can take its next step, and the
\* first handler is still suspended afterwards.
PersistencePcs == {"findAllByRoom", "create", "update", "findOne", "remove"}

Resume(u) ==
    \/ JoinRoomAdd(u)
    \/ \E outcome \in Outcomes : JoinRoomReturn(u, outcome)
    \/ LeaveRoomFinish(u)
    \/ \E outcome \in Outcomes : SendMessageReturn(u, outcome)

\* C19: commands of other connections start and proceed while one is suspended.
C19_Independent ==
    \A t \in tasks :
        t.pc \in PersistencePcs =>
            /\ \A d \in ParConns \ {t.conn} :
                  (sock[d] = "live" /\ \A u \in tasks : u.conn # d)
                    => /\ ENABLED (HandleDisconnect(d) /\ Still /\ t \in tasks')
                       /\ \A r \in ParRooms :
                            /\ ENABLED (JoinRoomStart(d, r) /\ Still /\ t \in tasks')
                            /\ ENABLED (LeaveRoomStart(d, r) /\ Still /\ t \in tasks')
                            /\ ENABLED (SendMessageStart(d, r, "hi") /\ Still /\ t \in tasks')
                            /\ ENABLED (HandleGetRoomMembers(d, r) /\ Still /\ t \in tasks')
            /\ \A u \in tasks :
                  u.conn # t.conn => ENABLED (Resume(u) /\ Still /\ t \in tasks')

\* A sendMessage of one connection has returned while a joinRoom of the other
\* connection is suspended on its history fetch.
C19_Witness ==
    /\ Returned("sendMessage") /\ lastOp.success = "true"
    /\ \E t \in tasks :
          t.op = "joinRoom" /\ t.pc = "findAllByRoom" /\ t.conn # lastOp.conn

\* C20: every roomMembers event holds the member set of its room as the
\* membership table has it when the event is emitted: the set after the
\* handler's own addition or removal and after every change made while the
\* handler was suspended, or the empty list for a room without an entry.
SnapshotRoom(e) ==
    IF e.target \in Conns
      THEN lastOp.room
      ELSE CHOOSE r \in Rooms : RoomGroup(r) = e.target

\* C20: every roomMembers payload is the room's member set at emission.
C20_SnapshotIsCurrent ==
    \A i \in 1..Len(emits) :
        emits[i].ev = "roomMembers"
          => emits[i].payload = IF MapHas(SnapshotRoom(emits[i]))
                                  THEN roomMembers[SnapshotRoom(emits[i])]
                                  ELSE <<>>

\* The snapshot of a join differs from the table the handler left when it was
\* suspended: the joiner's user, removed meanwhile, is not in it.
C20_Witness ==
    /\ JoinedOk
    /\ \E i \in At(emits, "roomMembers", lastOp.room) :
          /\ emits[i].payload # <<>>
          /\ ~SetHas(emits[i].payload, data[lastOp.conn])

\* C21: for every user and room, a userJoined event is emitted only if the
\* last presence event emitted for the pair was not userJoined (none yet, or
\* userLeft), and a userLeft event only if it was userJoined.
C21_Alternate ==
    [][\A i \in 1..Len(emits') :
          LET e == emits'[i]
          IN  /\ e.ev = "userJoined"
                    => announced[<<e.payload.userId, e.payload.roomId>>] # "joined"
              /\ e.ev = "userLeft"
                    => announced[<<e.payload.userId, e.payload.roomId>>] = "joined"
      ]_vars

\* C22: once the hook has received the messageDeleted event of a message, the
\* message is not in the hook's local list.
C22_DeletedLocally ==
    \A i \in 1..Len(emits) :
        (emits[i].ev = "messageDeleted" /\ HookConn \in emits[i].to /\ Listening(hook))
          => \A k \in 1..Len(hook.messages) :
                hook.messages[k].id # emits[i].payload.id

\* C23: once the room-change effect has nothing left to do after a joinRoom or
\* leaveRoom callback on the connected socket, currentRoom is the room the
\* callback asked for and, the hook's commands having arrived, the socket is
\* subscribed to that room's group and to no other room's.
SubscribedRooms(c) == {r \in Rooms : RoomGroup(r) \in rooms[c]}

C23_CallbackWins ==
    (Listening(hook) /\ hook.byCallback /\ ~hook.dirty /\ sock[HookConn] = "live")
        => /\ hook.currentRoom = hook.requested
           /\ hook.outbox = <<>>
                 => SubscribedRooms(HookConn) =
                       IF hook.requested = NoRoom THEN {} ELSE {hook.requested}

=============================================================================
